---- MODULE Spec2Model ----
\* Transaction lifecycle of the event-ticketing backend: checkout, proof
\* upload, organizer status update (routes/transactions) and the expiry
\* worker (workers/scheduler), over a shared store of users and transactions.
\* The repository holds three revisions of routes/transactions; `build`
\* selects the one that is deployed and never changes afterwards.
EXTENDS Integers, Sequences, FiniteSets, TLC

\* ---------------------------------------------------------------- bounds
MaxTx == 1            \* reservations that can be created
MaxUpdates == 2       \* organizer status-update requests
MaxTicks == 1         \* clock advances
MaxFailures == 1      \* storage failures injected
MaxPromos == 2        \* promotions that can be created

\* ------------------------------------------------------ program constants
PaymentWindow == 2    \* hours: 2 * 60 * 60 * 1000 ms
DecisionWindow == 72  \* hours: 3 * 24 * 60 * 60 * 1000 ms

NULL == -1

Builds == {"routes", "p002", "p003"}
Users == {1}
Actors == {1, 2}
Organizers == {1, 2}
InitBalance == [u \in Users |-> 3]
TickStep == DecisionWindow + 1
Files == {1}
Quantities == {1}

TxStatus == {"WAITING_PAYMENT", "WAITING_CONFIRMATION", "DONE",
             "REJECTED", "CANCELED", "EXPIRED"}
Terminal == {"DONE", "REJECTED", "CANCELED", "EXPIRED"}
RollbackStatuses == {"CANCELED", "REJECTED", "EXPIRED"}
\* Statuses an organizer asks for: the approval and the three the handler
\* names (the request schema is outside the sources).
StatusInputs == {"DONE"} \cup RollbackStatuses

\* Catalogue held by the event collaborator: event 1 owned by organizer 1
\* (and event 3, of organizer 2, for which no ticket type is on sale),
\* a paid and a free ticket type, and the promotions an organizer can have
\* created for it (amounts in units of the paid price / 2).
EventOrganizer == [e \in {1, 3} |-> IF e = 1 THEN 1 ELSE 2]
TicketTypes == [t \in {1, 2} |-> [eventId |-> 1, priceIDR |-> IF t = 1 THEN 2 ELSE 0,
                                  quota |-> 1]]
EventSeats == [e \in {1} |-> 2]
NoPromo == "none"
Flat1 == [eventId |-> 1, code |-> "FLAT1", type |-> "FIXED", value |-> 1,
          minSpendIDR |-> 0, startsAt |-> 0, endsAt |-> 3]
Big3 == [eventId |-> 1, code |-> "BIG3", type |-> "FIXED", value |-> 3,
         minSpendIDR |-> 0, startsAt |-> 0, endsAt |-> 3]
Min5 == [eventId |-> 1, code |-> "MIN5", type |-> "FIXED", value |-> 1,
         minSpendIDR |-> 5, startsAt |-> 0, endsAt |-> 3]
Half == [eventId |-> 1, code |-> "HALF", type |-> "PERCENT", value |-> 50,
         minSpendIDR |-> 0, startsAt |-> 0, endsAt |-> 3]
\* A promotion valid at the instant TickStep only, and one of another event
\* with the same code, valid all along.
Late == [eventId |-> 1, code |-> "LATE", type |-> "FIXED", value |-> 1,
         minSpendIDR |-> 0, startsAt |-> TickStep, endsAt |-> TickStep]
LateOther == [eventId |-> 3, code |-> "LATE", type |-> "FIXED", value |-> 2,
              minSpendIDR |-> 0, startsAt |-> 0, endsAt |-> 4 * TickStep]
\* A promotion that may be used once.
Once == [eventId |-> 1, code |-> "ONCE", type |-> "FIXED", value |-> 1,
         minSpendIDR |-> 0, startsAt |-> 0, endsAt |-> 3, maxUses |-> 1]
PromoCodes == {NoPromo, "FLAT1", "BIG3", "MIN5", "HALF", "LATE"}

Min(a, b) == IF a <= b THEN a ELSE b

\* ledger: the point ledger rows (pointLedger), in order of insertion.
\* inventory: each ticket type's quota, each event's seatsAvailable and the
\* issued tickets, as the store holds them.
\* reviews: the review rows, in order of insertion.
\* organizerProfile: each organizer's ratingsAvg (as the exact quotient
\* <<sum, count>>) and ratingsCount.
VARIABLES build, now, failures, promotions, pointsBalance, transactions,
          req, sweep, lockTx, lockUser, audit, debited, resp, inventory,
          ledger, reviews, organizerProfile

vars == <<build, now, failures, promotions, pointsBalance, transactions,
          req, sweep, lockTx, lockUser, audit, debited, resp, inventory,
          ledger, reviews, organizerProfile>>

reviewVars == <<reviews, organizerProfile>>

TxIds == DOMAIN transactions
Reqs == DOMAIN req
Sweepers == DOMAIN sweep

IdleReq == [pc |-> "idle", id |-> 0, status |-> "NONE", userId |-> 0, eventId |-> 0,
            ticketTypeId |-> 0, qty |-> 0, promoCode |-> NoPromo,
            promoDiscount |-> 0, pointsUsed |-> 0, file |-> 0, rating |-> 0]
IdleSweep == [pc |-> "idle", now |-> 0, phase |-> "none", todo |-> {},
              cur |-> 0, stStatus |-> "NONE", stCredit |-> 0]
NoAudit == [orgWrites |-> 0, orgRollbacks |-> 0, orgCredited |-> 0,
            sweepWrites |-> 0, sweepCredited |-> 0]

\* The point ledger at deployment: one bonus row per user, for the points
\* the user starts with.
InitLedger == <<[userId |-> 1, deltaIDR |-> InitBalance[1], refTxId |-> NULL]>>

\* No organizer has been rated yet.
InitProfile == [o \in Organizers |-> [ratingsAvg |-> <<0, 1>>, ratingsCount |-> 0]]

\* The store after deployment, with nReq request handlers able to run at the
\* same time, nSweep overlapping runs of the worker and the given promotions.
InitWith(nReq, nSweep, promos) ==
    /\ build \in Builds
    /\ now = 0
    /\ failures = 0
    /\ pointsBalance = InitBalance
    /\ transactions = <<>>
    /\ promotions = promos
    /\ req = [p \in 1..nReq |-> IdleReq]
    /\ sweep = [s \in 1..nSweep |-> IdleSweep]
    /\ lockTx = [i \in 1..(MaxTx + 1) |-> 0]
    /\ lockUser = [u \in Users |-> 0]
    /\ audit = <<>>
    /\ debited = [u \in Users |-> 0]
    /\ resp = 0
    /\ inventory = [quota |-> [t \in DOMAIN TicketTypes |-> TicketTypes[t].quota],
                    seatsAvailable |-> EventSeats,
                    tickets |-> {}]
    /\ ledger = InitLedger
    /\ reviews = <<>>
    /\ organizerProfile = InitProfile

Init == InitWith(1, 1, {})

\* Wall clock.
Tick ==
    /\ now < MaxTicks * TickStep
    /\ now' = now + TickStep
    /\ UNCHANGED <<build, inventory, ledger, reviewVars,
                   failures, promotions, pointsBalance, transactions, req, sweep,
                   lockTx, lockUser, audit, debited>>
    /\ resp' = 0

\* ------------------------------------------------------------- pricing
Subtotal(ticketTypeId, qty) == TicketTypes[ticketTypeId].priceIDR * qty

\* FindPromo with lt and gt for lte and gte.
FindPromoExclusive(eventId, code) ==
    {pr \in promotions : /\ pr.eventId = eventId
                         /\ pr.code = code
                         /\ pr.startsAt < now
                         /\ pr.endsAt > now}

\* FindPromo without the validity window in the where clause.
FindPromoAnyTime(eventId, code) ==
    {pr \in promotions : pr.eventId = eventId /\ pr.code = code}

\* prisma.promotion.findFirst: same event, same code, startsAt <= now <= endsAt
FindPromo(eventId, code) ==
    {pr \in promotions : /\ pr.eventId = eventId
                         /\ pr.code = code
                         /\ pr.startsAt <= now
                         /\ pr.endsAt >= now}

\* Math.floor((promo.value / 100) * subtotal) for PERCENT, promo.value
\* otherwise; the percentages of the catalogue are exact in binary floating
\* point, so the floor of the double is the integer quotient.
PromoDiscount(pr, subtotal) ==
    IF pr.type = "PERCENT" THEN (pr.value * subtotal) \div 100 ELSE pr.value

PointsUsed(usePoints, balance, subtotal, promoDiscount) ==
    IF usePoints /\ balance > 0 THEN Min(balance, subtotal - promoDiscount) ELSE 0

\* ------------------------------------------------------------- checkout
\* A new request is served by the first free handler slot.
Free(p) == req[p].pc = "idle" /\ \A q \in Reqs : q < p => req[q].pc # "idle"

Respond(p, code) ==
    /\ req' = [req EXCEPT ![p] = IdleReq]
    /\ resp' = code

\* POST /: event, ticket type and promo lookups fail the request; otherwise
\* the user's row is read and the redemption is computed from that read.
CheckoutRejected(p, eventId, ticketTypeId, promoCode) ==
    /\ Free(p)
    /\ \/ /\ eventId \notin DOMAIN EventOrganizer
          /\ Respond(p, 404)
       \/ /\ eventId \in DOMAIN EventOrganizer
          /\ \/ ticketTypeId \notin DOMAIN TicketTypes
             \/ /\ ticketTypeId \in DOMAIN TicketTypes
                /\ \/ TicketTypes[ticketTypeId].eventId # eventId
                   \/ /\ promoCode # NoPromo
                      /\ FindPromo(eventId, promoCode) = {}
          /\ Respond(p, 400)
    /\ UNCHANGED <<build, inventory, ledger, reviewVars,
                   now, failures, promotions, pointsBalance, transactions,
                   sweep, lockTx, lockUser, audit, debited>>

\* The checkout past its lookups, the store having room for `cap` reservations.
CheckoutReadUpTo(cap, p, u, ticketTypeId, qty, usePoints, promoCode) ==
    LET eventId == 1
        subtotal == Subtotal(ticketTypeId, qty)
        found == FindPromo(eventId, promoCode)
        promoDiscount == IF promoCode = NoPromo THEN 0
                         ELSE PromoDiscount(CHOOSE pr \in found : TRUE, subtotal)
        pointsUsed == PointsUsed(usePoints, pointsBalance[u], subtotal, promoDiscount)
    IN  /\ Free(p)
        /\ Len(transactions) < cap
        /\ ticketTypeId \in DOMAIN TicketTypes
        /\ TicketTypes[ticketTypeId].eventId = eventId
        /\ promoCode # NoPromo => found # {}
        /\ req' = [req EXCEPT ![p] =
                     [IdleReq EXCEPT !.pc = IF usePoints /\ pointsBalance[u] > 0
                                            THEN "co_debit" ELSE "co_create",
                                     !.userId = u,
                                     !.ticketTypeId = ticketTypeId,
                                     !.qty = qty,
                                     !.promoCode = promoCode,
                                     !.promoDiscount = promoDiscount,
                                     !.pointsUsed = pointsUsed]]
        /\ UNCHANGED <<build, inventory, ledger, reviewVars,
                   now, failures, promotions, pointsBalance, transactions,
                       sweep, lockTx, lockUser, audit, debited>>
        /\ resp' = 0

CheckoutRead(p, u, ticketTypeId, qty, usePoints, promoCode) ==
    CheckoutReadUpTo(MaxTx, p, u, ticketTypeId, qty, usePoints, promoCode)

\* prisma.user.update({ pointsBalance: { decrement: pointsUsed } })
CheckoutDebit(p) ==
    /\ req[p].pc = "co_debit"
    /\ lockUser[req[p].userId] = 0
    /\ pointsBalance' = [pointsBalance EXCEPT ![req[p].userId] = @ - req[p].pointsUsed]
    /\ debited' = [debited EXCEPT ![req[p].userId] = @ + req[p].pointsUsed]
    /\ req' = [req EXCEPT ![p].pc = "co_create"]
    /\ UNCHANGED <<build, inventory, ledger, reviewVars,
                   now, failures, promotions, transactions, sweep, lockTx,
                   lockUser, audit>>
    /\ resp' = 0

\* InitialStatus with the comparison off by one (>= for <=).
InitialStatusOffByOne(totalPayable) ==
    IF totalPayable >= 0 THEN "WAITING_CONFIRMATION" ELSE "WAITING_PAYMENT"

InitialStatus(totalPayable) ==
    IF totalPayable <= 0 THEN "WAITING_CONFIRMATION" ELSE "WAITING_PAYMENT"

\* data of prisma.transaction.create in routes/transactions (and revision p002)
CreateDataRoutes(r) ==
    LET subtotal == Subtotal(r.ticketTypeId, r.qty)
    IN  [userId |-> r.userId, eventId |-> 1, status |-> "WAITING_PAYMENT",
         totalBeforeIDR |-> subtotal, pointsUsedIDR |-> r.pointsUsed,
         promoCode |-> r.promoCode, promoDiscountIDR |-> r.promoDiscount,
         totalPayableIDR |-> subtotal - r.promoDiscount - r.pointsUsed,
         createdAt |-> now, expiresAt |-> now + PaymentWindow,
         decisionDueAt |-> NULL, paymentProofUrl |-> NULL, paymentProofAt |-> NULL,
         ticketTypeId |-> r.ticketTypeId, qty |-> r.qty,
         unitPriceIDR |-> TicketTypes[r.ticketTypeId].priceIDR]

\* data of prisma.transaction.create in revision p003
CreateDataP003(r) ==
    LET subtotal == Subtotal(r.ticketTypeId, r.qty)
        totalPayable == subtotal - r.promoDiscount - r.pointsUsed
        initialStatus == InitialStatus(totalPayable)
    IN  [userId |-> r.userId, eventId |-> 1, status |-> initialStatus,
         totalBeforeIDR |-> subtotal, pointsUsedIDR |-> r.pointsUsed,
         promoCode |-> r.promoCode, promoDiscountIDR |-> r.promoDiscount,
         totalPayableIDR |-> totalPayable,
         createdAt |-> now,
         expiresAt |-> IF initialStatus = "WAITING_PAYMENT"
                       THEN now + PaymentWindow ELSE now,
         decisionDueAt |-> IF initialStatus = "WAITING_CONFIRMATION"
                           THEN now + DecisionWindow ELSE NULL,
         paymentProofUrl |-> NULL, paymentProofAt |-> NULL,
         ticketTypeId |-> r.ticketTypeId, qty |-> r.qty,
         unitPriceIDR |-> TicketTypes[r.ticketTypeId].priceIDR]

CreateData(r) == IF build = "p003" THEN CreateDataP003(r) ELSE CreateDataRoutes(r)

\* prisma.transaction.create, the store having room for `cap` reservations.
CheckoutCreateUpTo(cap, p) ==
    /\ req[p].pc = "co_create"
    /\ Len(transactions) < cap
    /\ transactions' = Append(transactions, CreateData(req[p]))
    /\ audit' = Append(audit, NoAudit)
    /\ Respond(p, 201)
    /\ UNCHANGED <<build, inventory, ledger, reviewVars,
                   now, failures, promotions, pointsBalance, sweep, lockTx,
                   lockUser, debited>>

\* CheckoutCreate that also takes the reserved quantity off the ticket
\* type's quota and the event's seatsAvailable.
CheckoutCreateHoldsQuota(p) ==
    LET t == CreateData(req[p])
    IN  /\ req[p].pc = "co_create"
        /\ Len(transactions) < MaxTx
        /\ transactions' = Append(transactions, t)
        /\ audit' = Append(audit, NoAudit)
        /\ inventory' = [inventory EXCEPT !.quota[t.ticketTypeId] = @ - t.qty,
                                          !.seatsAvailable[t.eventId] = @ - t.qty]
        /\ Respond(p, 201)
        /\ UNCHANGED <<build, ledger, reviewVars, now, failures, promotions,
                       pointsBalance, sweep, lockTx, lockUser, debited>>

CheckoutCreate(p) == CheckoutCreateUpTo(MaxTx, p)

\* A storage call of the checkout throws: the catch block answers 500 and
\* nothing that was already written is undone.
CheckoutFail(p) ==
    /\ req[p].pc \in {"co_debit", "co_create"}
    /\ failures < MaxFailures
    /\ failures' = failures + 1
    /\ Respond(p, 500)
    /\ UNCHANGED <<build, inventory, ledger, reviewVars,
                   now, promotions, pointsBalance, transactions, sweep,
                   lockTx, lockUser, audit, debited>>

\* --------------------------------------------------------- proof upload
\* Statuses for which POST /:id/proof goes on to its update.
ProofAllowed(status) ==
    IF build = "p002" THEN status \in {"WAITING_PAYMENT", "WAITING_CONFIRMATION"}
    ELSE status = "WAITING_PAYMENT"

\* ProofRead that also refuses a reservation whose payment deadline has passed.
ProofReadChecksDeadline(p, actor, id, file) ==
    /\ Free(p)
    /\ id \in 1..(MaxTx + 1)
    /\ IF id \notin TxIds THEN Respond(p, 404)
       ELSE IF transactions[id].userId # actor
            THEN Respond(p, IF build = "p003" THEN 403 ELSE 404)
       ELSE IF ~ProofAllowed(transactions[id].status) THEN Respond(p, 400)
       ELSE IF transactions[id].expiresAt < now THEN Respond(p, 400)
       ELSE /\ req' = [req EXCEPT ![p] = [IdleReq EXCEPT !.pc = "pf_write",
                                                         !.id = id, !.file = file]]
            /\ resp' = 0
    /\ UNCHANGED <<build, inventory, ledger, reviewVars,
                   now, failures, promotions, pointsBalance, transactions,
                   sweep, lockTx, lockUser, audit, debited>>

\* ProofRead that looks the reservation up by id alone.
ProofReadAnyUser(p, actor, id, file) ==
    /\ Free(p)
    /\ id \in 1..(MaxTx + 1)
    /\ IF id \notin TxIds THEN Respond(p, 404)
       ELSE IF ~ProofAllowed(transactions[id].status) THEN Respond(p, 400)
       ELSE /\ req' = [req EXCEPT ![p] = [IdleReq EXCEPT !.pc = "pf_write",
                                                         !.id = id, !.file = file]]
            /\ resp' = 0
    /\ UNCHANGED <<build, inventory, ledger, reviewVars,
                   now, failures, promotions, pointsBalance, transactions,
                   sweep, lockTx, lockUser, audit, debited>>

\* findUnique, ownership and status checks; the update is a later storage call.
ProofRead(p, actor, id, file) ==
    /\ Free(p)
    /\ id \in 1..(MaxTx + 1)
    /\ IF id \notin TxIds THEN Respond(p, 404)
       ELSE IF transactions[id].userId # actor
            THEN Respond(p, IF build = "p003" THEN 403 ELSE 404)
       ELSE IF ~ProofAllowed(transactions[id].status) THEN Respond(p, 400)
       ELSE /\ req' = [req EXCEPT ![p] = [IdleReq EXCEPT !.pc = "pf_write",
                                                         !.id = id, !.file = file]]
            /\ resp' = 0
    /\ UNCHANGED <<build, inventory, ledger, reviewVars,
                   now, failures, promotions, pointsBalance, transactions,
                   sweep, lockTx, lockUser, audit, debited>>

\* data of the update in routes/transactions and p002; p003 leaves decisionDueAt
ProofData(t, file) ==
    IF build = "p003"
    THEN [t EXCEPT !.paymentProofUrl = file, !.paymentProofAt = now,
                   !.status = "WAITING_CONFIRMATION"]
    ELSE [t EXCEPT !.paymentProofUrl = file, !.paymentProofAt = now,
                   !.status = "WAITING_CONFIRMATION",
                   !.decisionDueAt = now + DecisionWindow]

\* ProofWrite with the update applied to every reservation of the owner.
ProofWriteAllOfUser(p) ==
    /\ req[p].pc = "pf_write"
    /\ lockTx[req[p].id] = 0
    /\ transactions' = [i \in TxIds |->
                           IF transactions[i].userId = transactions[req[p].id].userId
                           THEN ProofData(transactions[i], req[p].file)
                           ELSE transactions[i]]
    /\ Respond(p, 200)
    /\ UNCHANGED <<build, inventory, ledger, reviewVars,
                   now, failures, promotions, pointsBalance, sweep, lockTx,
                   lockUser, audit, debited>>

ProofWrite(p) ==
    /\ req[p].pc = "pf_write"
    /\ lockTx[req[p].id] = 0
    /\ transactions' = [transactions EXCEPT ![req[p].id] = ProofData(@, req[p].file)]
    /\ Respond(p, 200)
    /\ UNCHANGED <<build, inventory, ledger, reviewVars,
                   now, failures, promotions, pointsBalance, sweep, lockTx,
                   lockUser, audit, debited>>

\* -------------------------------------------------------- status update
RECURSIVE OrgWritesUpTo(_)
OrgWritesUpTo(i) == IF i = 0 THEN 0 ELSE audit[i].orgWrites + OrgWritesUpTo(i - 1)

\* Status updates that passed the checks so far (budget of the model).
UpdatesStarted ==
    Cardinality({q \in Reqs : req[q].pc \in {"st_write", "st_credit"}})
        + OrgWritesUpTo(Len(audit))

\* The ownership check exists in p002 and p003 only.
OwnsEvent(org, t) == build = "routes" \/ EventOrganizer[t.eventId] = org

StatusRead(p, org, id, status) ==
    /\ Free(p)
    /\ id \in 1..(MaxTx + 1)
    /\ status \in StatusInputs
    /\ IF id \notin TxIds THEN Respond(p, 404)
       ELSE IF ~OwnsEvent(org, transactions[id]) THEN Respond(p, 403)
       ELSE /\ UpdatesStarted < MaxUpdates
            /\ req' = [req EXCEPT ![p] =
                         [IdleReq EXCEPT !.pc = "st_write", !.id = id,
                                         !.status = status,
                                         !.userId = transactions[id].userId,
                                         !.pointsUsed = transactions[id].pointsUsedIDR]]
            /\ resp' = 0
    /\ UNCHANGED <<build, inventory, ledger, reviewVars,
                   now, failures, promotions, pointsBalance, transactions,
                   sweep, lockTx, lockUser, audit, debited>>

\* prisma.transaction.update({ where: { id }, data: { status } })
StatusWrite(p) ==
    LET id == req[p].id
        rollback == req[p].status \in RollbackStatuses
    IN  /\ req[p].pc = "st_write"
        /\ lockTx[id] = 0
        /\ transactions' = [transactions EXCEPT ![id].status = req[p].status]
        /\ audit' = [audit EXCEPT ![id].orgWrites = @ + 1,
                                  ![id].orgRollbacks = @ + (IF rollback THEN 1 ELSE 0)]
        /\ IF rollback
           THEN /\ req' = [req EXCEPT ![p].pc = "st_credit"]
                /\ resp' = 0
           ELSE Respond(p, 200)
        /\ UNCHANGED <<build, inventory, ledger, reviewVars,
                   now, failures, promotions, pointsBalance, sweep,
                       lockTx, lockUser, debited>>

\* prisma.user.update({ pointsBalance: { increment: tx.pointsUsedIDR } })
StatusCredit(p) ==
    /\ req[p].pc = "st_credit"
    /\ lockUser[req[p].userId] = 0
    /\ pointsBalance' = [pointsBalance EXCEPT ![req[p].userId] = @ + req[p].pointsUsed]
    /\ audit' = [audit EXCEPT ![req[p].id].orgCredited = @ + req[p].pointsUsed]
    /\ Respond(p, 200)
    /\ UNCHANGED <<build, inventory, ledger, reviewVars,
                   now, failures, promotions, transactions, sweep, lockTx,
                   lockUser, debited>>

\* A storage call of the status update throws: 500, nothing is undone.
StatusFail(p) ==
    /\ req[p].pc \in {"st_write", "st_credit"}
    /\ failures < MaxFailures
    /\ failures' = failures + 1
    /\ Respond(p, 500)
    /\ UNCHANGED <<build, inventory, ledger, reviewVars,
                   now, promotions, pointsBalance, transactions, sweep,
                   lockTx, lockUser, audit, debited>>

\* --------------------------------------------------------------- worker
\* ExpiredTx without the status in the where clause.
ExpiredTxAnyStatus(at) ==
    {i \in TxIds : /\ transactions[i].expiresAt # NULL
                   /\ transactions[i].expiresAt < at}

\* findMany({ status: "WAITING_PAYMENT", expiresAt: { lt: now } })
ExpiredTx(at) ==
    {i \in TxIds : /\ transactions[i].status = "WAITING_PAYMENT"
                   /\ transactions[i].expiresAt # NULL
                   /\ transactions[i].expiresAt < at}

\* findMany({ status: "WAITING_CONFIRMATION", decisionDueAt: { lt: now } })
CanceledTx(at) ==
    {i \in TxIds : /\ transactions[i].status = "WAITING_CONFIRMATION"
                   /\ transactions[i].decisionDueAt # NULL
                   /\ transactions[i].decisionDueAt < at}

\* handleExpiredTransactions starts: `now` is taken once, first query runs.
SweepStart(s) ==
    /\ sweep[s].pc = "idle"
    /\ \A r \in Sweepers : r < s => sweep[r].pc # "idle"
    /\ sweep' = [sweep EXCEPT ![s] = [IdleSweep EXCEPT !.pc = "loop", !.now = now,
                                                       !.phase = "expire",
                                                       !.todo = ExpiredTx(now)]]
    /\ UNCHANGED <<build, inventory, ledger, reviewVars,
                   now, failures, promotions, pointsBalance, transactions,
                   req, lockTx, lockUser, audit, debited>>
    /\ resp' = 0

\* The first loop is over: second query, with the `now` taken at the start.
SweepSecondQuery(s) ==
    /\ sweep[s].pc = "loop"
    /\ sweep[s].phase = "expire"
    /\ sweep[s].todo = {}
    /\ sweep' = [sweep EXCEPT ![s].phase = "cancel",
                              ![s].todo = CanceledTx(sweep[s].now)]
    /\ UNCHANGED <<build, inventory, ledger, reviewVars,
                   now, failures, promotions, pointsBalance, transactions,
                   req, lockTx, lockUser, audit, debited>>
    /\ resp' = 0

SweepDone(s) ==
    /\ sweep[s].pc = "loop"
    /\ sweep[s].phase = "cancel"
    /\ sweep[s].todo = {}
    /\ sweep' = [sweep EXCEPT ![s] = IdleSweep]
    /\ UNCHANGED <<build, inventory, ledger, reviewVars,
                   now, failures, promotions, pointsBalance, transactions,
                   req, lockTx, lockUser, audit, debited>>
    /\ resp' = 0

\* SweepUpdateStatus with the credit never taken (pointsUsedIDR test dropped).
SweepUpdateStatusNoCredit(s, id) ==
    /\ sweep[s].pc = "loop"
    /\ id \in sweep[s].todo
    /\ lockTx[id] = 0
    /\ lockTx' = [lockTx EXCEPT ![id] = s]
    /\ sweep' = [sweep EXCEPT ![s].cur = id,
                              ![s].stStatus = IF sweep[s].phase = "expire"
                                              THEN "EXPIRED" ELSE "CANCELED",
                              ![s].pc = "tx_commit"]
    /\ UNCHANGED <<build, inventory, ledger, reviewVars,
                   now, failures, promotions, pointsBalance, transactions,
                   req, lockUser, audit, debited>>
    /\ resp' = 0

\* Inside prisma.$transaction: trx.transaction.update({ where: { id },
\* data: { status } }). The row is locked and the write is held by the
\* storage transaction until it commits.
SweepUpdateStatus(s, id) ==
    /\ sweep[s].pc = "loop"
    /\ id \in sweep[s].todo
    /\ lockTx[id] = 0
    /\ lockTx' = [lockTx EXCEPT ![id] = s]
    /\ sweep' = [sweep EXCEPT ![s].cur = id,
                              ![s].stStatus = IF sweep[s].phase = "expire"
                                              THEN "EXPIRED" ELSE "CANCELED",
                              ![s].pc = IF transactions[id].pointsUsedIDR > 0
                                        THEN "tx_credit" ELSE "tx_commit"]
    /\ UNCHANGED <<build, inventory, ledger, reviewVars,
                   now, failures, promotions, pointsBalance, transactions,
                   req, lockUser, audit, debited>>
    /\ resp' = 0

\* trx.user.update({ pointsBalance: { increment: tx.pointsUsedIDR } })
SweepCredit(s) ==
    LET u == transactions[sweep[s].cur].userId
    IN  /\ sweep[s].pc = "tx_credit"
        /\ lockUser[u] = 0
        /\ lockUser' = [lockUser EXCEPT ![u] = s]
        /\ sweep' = [sweep EXCEPT ![s].stCredit = transactions[sweep[s].cur].pointsUsedIDR,
                                  ![s].pc = "tx_commit"]
        /\ UNCHANGED <<build, inventory, ledger, reviewVars,
                   now, failures, promotions, pointsBalance, transactions,
                       req, lockTx, audit, debited>>
        /\ resp' = 0

\* SweepCommit that also resets pointsUsedIDR of the reservation it refunds.
SweepCommitClearsPoints(s) ==
    LET id == sweep[s].cur
        u == transactions[id].userId
    IN  /\ sweep[s].pc = "tx_commit"
        /\ transactions' = [transactions EXCEPT ![id].status = sweep[s].stStatus,
                                                ![id].pointsUsedIDR = 0]
        /\ pointsBalance' = [pointsBalance EXCEPT ![u] = @ + sweep[s].stCredit]
        /\ audit' = [audit EXCEPT ![id].sweepWrites = @ + 1,
                                  ![id].sweepCredited = @ + sweep[s].stCredit]
        /\ lockTx' = [lockTx EXCEPT ![id] = 0]
        /\ lockUser' = [v \in Users |-> IF lockUser[v] = s THEN 0 ELSE lockUser[v]]
        /\ sweep' = [sweep EXCEPT ![s].pc = "loop", ![s].cur = 0,
                                  ![s].stStatus = "NONE", ![s].stCredit = 0,
                                  ![s].todo = @ \ {id}]
        /\ UNCHANGED <<build, inventory, ledger, reviewVars,
                       now, failures, promotions, req, debited>>
        /\ resp' = 0

\* The callback returned: both writes become visible together.
SweepCommit(s) ==
    LET id == sweep[s].cur
        u == transactions[id].userId
    IN  /\ sweep[s].pc = "tx_commit"
        /\ transactions' = [transactions EXCEPT ![id].status = sweep[s].stStatus]
        /\ pointsBalance' = [pointsBalance EXCEPT ![u] = @ + sweep[s].stCredit]
        /\ audit' = [audit EXCEPT ![id].sweepWrites = @ + 1,
                                  ![id].sweepCredited = @ + sweep[s].stCredit]
        /\ lockTx' = [lockTx EXCEPT ![id] = 0]
        /\ lockUser' = [v \in Users |-> IF lockUser[v] = s THEN 0 ELSE lockUser[v]]
        /\ sweep' = [sweep EXCEPT ![s].pc = "loop", ![s].cur = 0,
                                  ![s].stStatus = "NONE", ![s].stCredit = 0,
                                  ![s].todo = @ \ {id}]
        /\ UNCHANGED <<build, inventory, ledger, reviewVars,
                   now, failures, promotions, req, debited>>
    /\ resp' = 0

\* SweepFail without the enclosing prisma.$transaction: the status update that
\* already ran stays written, the credit never happens.
SweepFailPartial(s) ==
    /\ sweep[s].pc \in {"tx_credit", "tx_commit"}
    /\ failures < MaxFailures
    /\ failures' = failures + 1
    /\ transactions' = [transactions EXCEPT ![sweep[s].cur].status = sweep[s].stStatus]
    /\ audit' = [audit EXCEPT ![sweep[s].cur].sweepWrites = @ + 1]
    /\ lockTx' = [i \in DOMAIN lockTx |-> IF lockTx[i] = s THEN 0 ELSE lockTx[i]]
    /\ lockUser' = [v \in Users |-> IF lockUser[v] = s THEN 0 ELSE lockUser[v]]
    /\ sweep' = [sweep EXCEPT ![s] = IdleSweep]
    /\ UNCHANGED <<build, inventory, ledger, reviewVars,
                   now, promotions, pointsBalance, req, debited>>
    /\ resp' = 0

\* A storage call inside the transaction throws: the transaction is rolled
\* back, the exception leaves handleExpiredTransactions and the run ends.
SweepFail(s) ==
    /\ sweep[s].pc \in {"tx_credit", "tx_commit"}
    /\ failures < MaxFailures
    /\ failures' = failures + 1
    /\ lockTx' = [i \in DOMAIN lockTx |-> IF lockTx[i] = s THEN 0 ELSE lockTx[i]]
    /\ lockUser' = [v \in Users |-> IF lockUser[v] = s THEN 0 ELSE lockUser[v]]
    /\ sweep' = [sweep EXCEPT ![s] = IdleSweep]
    /\ UNCHANGED <<build, inventory, ledger, reviewVars,
                   now, promotions, pointsBalance, transactions, req, audit,
                   debited>>
    /\ resp' = 0

\* ----------------------------------------------------------- promotions
\* The storage constraint on promotions: the code is unique within the event.
UniqueAlways(promos) == TRUE

UniqueWithinEvent(promos) ==
    \A a, b \in promos : (a.eventId = b.eventId /\ a.code = b.code) => a = b

SameCode(eventId, code) ==
    {pr \in promotions : pr.eventId = eventId /\ pr.code = code}

\* POST /api/promotions up to its findFirst: 404 for an unknown event, 403 for
\* an event of another organizer, 400 when the code exists for the event.
PromoCreateRead(p, org, eventId, code) ==
    /\ Free(p)
    /\ IF eventId \notin DOMAIN EventOrganizer THEN Respond(p, 404)
       ELSE IF EventOrganizer[eventId] # org THEN Respond(p, 403)
       ELSE IF SameCode(eventId, code) # {} THEN Respond(p, 400)
       ELSE /\ Cardinality(promotions)
                 + Cardinality({q \in Reqs : req[q].pc = "pm_create"}) < MaxPromos
            /\ req' = [req EXCEPT ![p] = [IdleReq EXCEPT !.pc = "pm_create",
                                                         !.eventId = eventId,
                                                         !.promoCode = code]]
            /\ resp' = 0
    /\ UNCHANGED <<build, inventory, ledger, reviewVars, now, failures, promotions, pointsBalance,
                   transactions, sweep, lockTx, lockUser, audit, debited>>

\* prisma.promotion.create: the row is stored unless the storage constraint
\* refuses it, in which case the call throws and the catch answers 500.
PromoCreateWrite(p) ==
    LET new == [id |-> Cardinality(promotions) + 1, eventId |-> req[p].eventId,
                code |-> req[p].promoCode, type |-> "FIXED", value |-> 1,
                minSpendIDR |-> 0, startsAt |-> 0, endsAt |-> 3]
    IN  /\ req[p].pc = "pm_create"
        /\ IF UniqueWithinEvent(promotions \cup {new})
           THEN promotions' = promotions \cup {new} /\ Respond(p, 201)
           ELSE promotions' = promotions /\ Respond(p, 500)
        /\ UNCHANGED <<build, inventory, ledger, reviewVars, now, failures, pointsBalance,
                       transactions, sweep, lockTx, lockUser, audit, debited>>

\* PUT /api/promotions/:id up to its update: 404 for an unknown id, 403 for
\* a promotion of another organizer's event.
PromoUpdateRead(p, org, id, code) ==
    /\ Free(p)
    /\ IF \A pr \in promotions : pr.id # id THEN Respond(p, 404)
       ELSE IF \E pr \in promotions : pr.id = id /\ EventOrganizer[pr.eventId] # org
            THEN Respond(p, 403)
       ELSE /\ req' = [req EXCEPT ![p] = [IdleReq EXCEPT !.pc = "pm_update",
                                                         !.id = id,
                                                         !.promoCode = code]]
            /\ resp' = 0
    /\ UNCHANGED <<build, inventory, ledger, reviewVars, now, failures, promotions, pointsBalance,
                   transactions, sweep, lockTx, lockUser, audit, debited>>

\* prisma.promotion.update({ where: { id }, data: req.body }), the body
\* carrying a code.
PromoUpdateWrite(p) ==
    LET old == CHOOSE pr \in promotions : pr.id = req[p].id
        updated == [old EXCEPT !.code = req[p].promoCode]
        after == (promotions \ {old}) \cup {updated}
    IN  /\ req[p].pc = "pm_update"
        /\ IF UniqueWithinEvent(after)
           THEN promotions' = after /\ Respond(p, 200)
           ELSE promotions' = promotions /\ Respond(p, 500)
        /\ UNCHANGED <<build, inventory, ledger, reviewVars, now, failures, pointsBalance,
                       transactions, sweep, lockTx, lockUser, audit, debited>>

\* Organizers managing promotions, two requests able to run at the same time.
NextPromotions ==
    \/ \E p \in Reqs, o \in Organizers, e \in {1, 2, 3}, c \in {"FLAT1", "BIG3"} :
          PromoCreateRead(p, o, e, c)
    \/ \E p \in Reqs : PromoCreateWrite(p)
    \/ \E p \in Reqs, o \in Organizers, i \in 1..(MaxPromos + 1), c \in {"FLAT1", "BIG3"} :
          PromoUpdateRead(p, o, i, c)
    \/ \E p \in Reqs : PromoUpdateWrite(p)

InitPromotions == InitWith(2, 0, {})
SpecPromotions == InitPromotions /\ [][NextPromotions]_vars

\* -------------------------------------------------------------- reviews
Ratings == {1, 5}

\* The compound unique key eventId_userId of the review table.
ReviewUnique(rows) ==
    \A i, j \in DOMAIN rows :
        (rows[i].eventId = rows[j].eventId /\ rows[i].userId = rows[j].userId) => i = j

\* prisma.transaction.findFirst({ where: { userId, eventId, status: "DONE" } })
ValidPurchase(userId, eventId) ==
    {id \in TxIds : /\ transactions[id].userId = userId
                    /\ transactions[id].eventId = eventId
                    /\ transactions[id].status = "DONE"}

\* prisma.review.findUnique({ where: { eventId_userId: { eventId, userId } } })
ExistingReview(userId, eventId) ==
    {i \in DOMAIN reviews : reviews[i].eventId = eventId /\ reviews[i].userId = userId}

\* POST /api/reviews up to the purchase check: 403 without a DONE transaction.
ReviewRead(p, actor, eventId, rating) ==
    /\ Free(p)
    /\ IF ValidPurchase(actor, eventId) = {} THEN Respond(p, 403)
       ELSE /\ req' = [req EXCEPT ![p] = [IdleReq EXCEPT !.pc = "rv_check",
                                                         !.userId = actor,
                                                         !.eventId = eventId,
                                                         !.rating = rating]]
            /\ resp' = 0
    /\ UNCHANGED <<build, inventory, ledger, reviewVars,
                   now, failures, promotions, pointsBalance, transactions,
                   sweep, lockTx, lockUser, audit, debited>>

\* The existing-review check: 400 when the user has reviewed the event.
ReviewCheck(p) ==
    /\ req[p].pc = "rv_check"
    /\ IF ExistingReview(req[p].userId, req[p].eventId) # {} THEN Respond(p, 400)
       ELSE /\ req' = [req EXCEPT ![p].pc = "rv_create"]
            /\ resp' = 0
    /\ UNCHANGED <<build, inventory, ledger, reviewVars,
                   now, failures, promotions, pointsBalance, transactions,
                   sweep, lockTx, lockUser, audit, debited>>

\* prisma.review.create: the row is stored unless the unique key refuses
\* it, in which case the call throws and the catch answers 500.
ReviewCreate(p) ==
    LET rows == Append(reviews, [eventId |-> req[p].eventId, userId |-> req[p].userId,
                                 rating |-> req[p].rating])
    IN  /\ req[p].pc = "rv_create"
        /\ IF ReviewUnique(rows)
           THEN /\ reviews' = rows
                /\ req' = [req EXCEPT ![p].pc = "rv_rate"]
                /\ resp' = 0
           ELSE /\ reviews' = reviews
                /\ Respond(p, 500)
        /\ UNCHANGED <<build, inventory, ledger, organizerProfile,
                       now, failures, promotions, pointsBalance, transactions,
                       sweep, lockTx, lockUser, audit, debited>>

RECURSIVE RatingSumUpTo(_, _)
\* Sum of the ratings of the reviews 1..i of event eventId.
RatingSumUpTo(i, eventId) ==
    IF i = 0 THEN 0
    ELSE (IF reviews[i].eventId = eventId THEN reviews[i].rating ELSE 0)
            + RatingSumUpTo(i - 1, eventId)

\* prisma.review.aggregate over the event's reviews, then
\* prisma.organizerProfile.update of the event's organizer; 201.
ReviewRate(p) ==
    LET eventId == req[p].eventId
        count == Cardinality({i \in DOMAIN reviews : reviews[i].eventId = eventId})
        avg == IF count = 0 THEN <<0, 1>>
               ELSE <<RatingSumUpTo(Len(reviews), eventId), count>>
    IN  /\ req[p].pc = "rv_rate"
        /\ organizerProfile' = [organizerProfile EXCEPT ![EventOrganizer[eventId]] =
                                   [ratingsAvg |-> avg, ratingsCount |-> count]]
        /\ Respond(p, 201)
        /\ UNCHANGED <<build, inventory, ledger, reviews,
                       now, failures, promotions, pointsBalance, transactions,
                       sweep, lockTx, lockUser, audit, debited>>

\* ---------------------------------------------------------- the system
Next ==
    \/ Tick
    \/ \E p \in Reqs, e \in {1, 2}, t \in {1, 2, 3}, c \in PromoCodes \cup {"BOGUS"} :
          CheckoutRejected(p, e, t, c)
    \/ \E p \in Reqs, u \in Users, t \in {1, 2}, q \in Quantities,
          up \in BOOLEAN, c \in PromoCodes : CheckoutRead(p, u, t, q, up, c)
    \/ \E p \in Reqs : CheckoutDebit(p)
    \/ \E p \in Reqs : CheckoutCreate(p)
    \/ \E p \in Reqs : CheckoutFail(p)
    \/ \E p \in Reqs, a \in Actors, i \in 1..(MaxTx + 1), f \in Files :
          ProofRead(p, a, i, f)
    \/ \E p \in Reqs : ProofWrite(p)
    \/ \E p \in Reqs, o \in Organizers, i \in 1..(MaxTx + 1), st \in StatusInputs :
          StatusRead(p, o, i, st)
    \/ \E p \in Reqs : StatusWrite(p)
    \/ \E p \in Reqs : StatusCredit(p)
    \/ \E p \in Reqs : StatusFail(p)
    \/ \E s \in Sweepers : SweepStart(s)
    \/ \E s \in Sweepers : SweepSecondQuery(s)
    \/ \E s \in Sweepers : SweepDone(s)
    \/ \E s \in Sweepers, i \in 1..MaxTx : SweepUpdateStatus(s, i)
    \/ \E s \in Sweepers : SweepCredit(s)
    \/ \E s \in Sweepers : SweepCommit(s)
    \/ \E s \in Sweepers : SweepFail(s)

Spec == Init /\ [][Next]_vars

\* Checkouts only: no other handler, the worker not running.
NextCheckout ==
    \/ Tick
    \/ \E p \in Reqs, e \in {1, 2}, t \in {1, 2, 3}, c \in PromoCodes \cup {"BOGUS"} :
          CheckoutRejected(p, e, t, c)
    \/ \E p \in Reqs, u \in Users, t \in {1, 2}, q \in Quantities,
          up \in BOOLEAN, c \in PromoCodes : CheckoutRead(p, u, t, q, up, c)
    \/ \E p \in Reqs : CheckoutDebit(p)
    \/ \E p \in Reqs : CheckoutCreate(p)
    \/ \E p \in Reqs : CheckoutFail(p)

InitCheckout == InitWith(2, 0, {})
SpecCheckout == InitCheckout /\ [][NextCheckout]_vars

\* One checkout at a time, with a promotion on offer.
InitPricing == InitWith(1, 0, {Flat1})
SpecPricing == InitPricing /\ [][NextCheckout]_vars

\* One checkout at a time, every promotion of the catalogue on offer.
InitPromos == InitWith(1, 0, {Flat1, Big3, Min5, Half})
SpecPromos == InitPromos /\ [][NextCheckout]_vars

\* Customers and organizers, with orders of more than one ticket; no storage
\* failure, the worker not running.
BulkQuantities == {1, 2}
NextInventory ==
    \/ \E p \in Reqs, u \in Users, t \in {1, 2}, q \in BulkQuantities,
          up \in BOOLEAN, c \in PromoCodes : CheckoutRead(p, u, t, q, up, c)
    \/ \E p \in Reqs : CheckoutDebit(p)
    \/ \E p \in Reqs : CheckoutCreate(p)
    \/ \E p \in Reqs, a \in Actors, i \in 1..(MaxTx + 1), f \in Files :
          ProofRead(p, a, i, f)
    \/ \E p \in Reqs : ProofWrite(p)
    \/ \E p \in Reqs, o \in Organizers, i \in 1..(MaxTx + 1), st \in StatusInputs :
          StatusRead(p, o, i, st)
    \/ \E p \in Reqs : StatusWrite(p)
    \/ \E p \in Reqs : StatusCredit(p)

SpecInventory == Init /\ [][NextInventory]_vars

\* Every operation on reservations, one at a time: the owner checks out the
\* paid ticket type and uploads proofs, the event's organizer rejects or
\* cancels, the worker runs; no storage failure.
NextLifecycle ==
    \/ Tick
    \/ /\ \A s \in Sweepers : sweep[s].pc = "idle"
       /\ \/ \E p \in Reqs, u \in Users, up \in BOOLEAN :
                CheckoutRead(p, u, 1, 1, up, NoPromo)
          \/ \E p \in Reqs : CheckoutDebit(p)
          \/ \E p \in Reqs : CheckoutCreate(p)
          \/ \E p \in Reqs, i \in 1..MaxTx, f \in Files : ProofRead(p, 1, i, f)
          \/ \E p \in Reqs : ProofWrite(p)
          \/ \E p \in Reqs, i \in 1..MaxTx, st \in {"REJECTED", "CANCELED"} :
                StatusRead(p, 1, i, st)
          \/ \E p \in Reqs : StatusWrite(p)
          \/ \E p \in Reqs : StatusCredit(p)
    \/ /\ \A p \in Reqs : req[p].pc = "idle"
       /\ \E s \in Sweepers : SweepStart(s)
    \/ \E s \in Sweepers : SweepSecondQuery(s)
    \/ \E s \in Sweepers : SweepDone(s)
    \/ \E s \in Sweepers, i \in 1..MaxTx : SweepUpdateStatus(s, i)
    \/ \E s \in Sweepers : SweepCredit(s)
    \/ \E s \in Sweepers : SweepCommit(s)

SpecLifecycle == Init /\ [][NextLifecycle]_vars

\* One checkout at a time; a promotion of the event that is valid at one
\* instant and a promotion of another event with the same code.
InitWindow == InitWith(1, 0, {Late, LateOther})
SpecWindow == InitWindow /\ [][NextCheckout]_vars

\* Customers and the worker taking turns: a run of the worker starts only
\* when no request is in progress, no request starts while it runs, and no
\* storage call fails.
NextIsolated ==
    \/ Tick
    \/ /\ \A s \in Sweepers : sweep[s].pc = "idle"
       /\ \/ \E p \in Reqs, u \in Users, t \in {1, 2}, q \in Quantities,
                up \in BOOLEAN, c \in PromoCodes : CheckoutRead(p, u, t, q, up, c)
          \/ \E p \in Reqs : CheckoutDebit(p)
          \/ \E p \in Reqs : CheckoutCreate(p)
          \/ \E p \in Reqs, a \in Actors, i \in 1..(MaxTx + 1), f \in Files :
                ProofRead(p, a, i, f)
          \/ \E p \in Reqs : ProofWrite(p)
    \/ /\ \A p \in Reqs : req[p].pc = "idle"
       /\ \E s \in Sweepers : SweepStart(s)
    \/ \E s \in Sweepers : SweepSecondQuery(s)
    \/ \E s \in Sweepers : SweepDone(s)
    \/ \E s \in Sweepers, i \in 1..MaxTx : SweepUpdateStatus(s, i)
    \/ \E s \in Sweepers : SweepCredit(s)
    \/ \E s \in Sweepers : SweepCommit(s)

SpecIsolated == Init /\ [][NextIsolated]_vars

\* The store after two checkouts of the paid ticket type at time 0, the first
\* paid with 2 points, neither paid for yet; customers upload proofs and the
\* worker runs, one run at a time.
BacklogRequest(points) ==
    [IdleReq EXCEPT !.userId = 1, !.ticketTypeId = 1, !.qty = 1, !.pointsUsed = points]

InitBacklog ==
    /\ build \in Builds
    /\ now = 0
    /\ failures = 0
    /\ promotions = {}
    /\ pointsBalance = [u \in Users |-> InitBalance[u] - 2]
    /\ debited = [u \in Users |-> 2]
    /\ transactions = <<CreateData(BacklogRequest(2)), CreateData(BacklogRequest(0))>>
    /\ audit = <<NoAudit, NoAudit>>
    /\ req = [p \in 1..1 |-> IdleReq]
    /\ sweep = [s \in 1..1 |-> IdleSweep]
    /\ lockTx = [i \in 1..(MaxTx + 1) |-> 0]
    /\ lockUser = [u \in Users |-> 0]
    /\ resp = 0
    /\ inventory = [quota |-> [t \in DOMAIN TicketTypes |-> TicketTypes[t].quota],
                    seatsAvailable |-> EventSeats,
                    tickets |-> {}]
    /\ ledger = InitLedger
    /\ reviews = <<>>
    /\ organizerProfile = InitProfile

NextBacklog ==
    \/ Tick
    \/ \E p \in Reqs, a \in Actors, i \in 1..2, f \in Files : ProofRead(p, a, i, f)
    \/ \E p \in Reqs : ProofWrite(p)
    \/ \E s \in Sweepers : SweepStart(s)
    \/ \E s \in Sweepers : SweepSecondQuery(s)
    \/ \E s \in Sweepers : SweepDone(s)
    \/ \E s \in Sweepers, i \in 1..2 : SweepUpdateStatus(s, i)
    \/ \E s \in Sweepers : SweepCredit(s)
    \/ \E s \in Sweepers : SweepCommit(s)
    \/ \E s \in Sweepers : SweepFail(s)

SpecBacklog == InitBacklog /\ [][NextBacklog]_vars

\* Customers and the worker only, with two runs of the worker able to overlap
\* (a cron tick while the previous run is still in progress).
NextSweeps ==
    \/ Tick
    \/ \E p \in Reqs, u \in Users, t \in {1, 2}, q \in Quantities,
          up \in BOOLEAN, c \in PromoCodes : CheckoutRead(p, u, t, q, up, c)
    \/ \E p \in Reqs : CheckoutDebit(p)
    \/ \E p \in Reqs : CheckoutCreate(p)
    \/ \E p \in Reqs, a \in Actors, i \in 1..(MaxTx + 1), f \in Files :
          ProofRead(p, a, i, f)
    \/ \E p \in Reqs : ProofWrite(p)
    \/ \E s \in Sweepers : SweepStart(s)
    \/ \E s \in Sweepers : SweepSecondQuery(s)
    \/ \E s \in Sweepers : SweepDone(s)
    \/ \E s \in Sweepers, i \in 1..MaxTx : SweepUpdateStatus(s, i)
    \/ \E s \in Sweepers : SweepCredit(s)
    \/ \E s \in Sweepers : SweepCommit(s)
    \/ \E s \in Sweepers : SweepFail(s)

InitSweeps == InitWith(1, 2, {})
SpecSweeps == InitSweeps /\ [][NextSweeps]_vars

\* The same, with one run of the worker at a time.
SpecWorker == Init /\ [][NextSweeps]_vars

\* Customers buying the paid ticket type and reviewing events, the event's
\* organizer approving and canceling, two requests able to run at the same
\* time; no storage failure, the worker not running.
NextReviews ==
    \/ \E p \in Reqs, u \in Users : CheckoutRead(p, u, 1, 1, FALSE, NoPromo)
    \/ \E p \in Reqs : CheckoutCreate(p)
    \/ \E p \in Reqs, i \in 1..MaxTx, st \in {"DONE", "CANCELED"} :
          StatusRead(p, 1, i, st)
    \/ \E p \in Reqs : StatusWrite(p)
    \/ \E p \in Reqs : StatusCredit(p)
    \/ \E p \in Reqs, a \in Actors, e \in {1, 3}, r \in Ratings : ReviewRead(p, a, e, r)
    \/ \E p \in Reqs : ReviewCheck(p)
    \/ \E p \in Reqs : ReviewCreate(p)
    \/ \E p \in Reqs : ReviewRate(p)

InitReviews == InitWith(2, 0, {})
SpecReviews == InitReviews /\ [][NextReviews]_vars

\* The store once the customers have stopped acting: two reservations of
\* user 1 made at time 0, the first possibly paid with 2 points, each with
\* its proof uploaded at time 0 or not. From there only the clock and the
\* worker move; cron starts a run again and again and every storage call of
\* a run returns, so each step of the worker is taken if it stays possible.
QuietOrders == {<<1, 0>>, <<1, 2>>, <<2, 0>>}

QuietReservation(order, proof) ==
    LET t == CreateData([IdleReq EXCEPT !.userId = 1, !.ticketTypeId = order[1],
                                        !.qty = 1, !.pointsUsed = order[2]])
    IN  IF proof THEN ProofData(t, 1) ELSE t

InitQuiet ==
    /\ build \in Builds
    /\ now = 0
    /\ failures = 0
    /\ promotions = {}
    /\ \E o1 \in QuietOrders, o2 \in {<<1, 0>>, <<2, 0>>}, f1, f2 \in BOOLEAN :
          /\ f1 => ProofAllowed(QuietReservation(o1, FALSE).status)
          /\ f2 => ProofAllowed(QuietReservation(o2, FALSE).status)
          /\ transactions = <<QuietReservation(o1, f1), QuietReservation(o2, f2)>>
          /\ pointsBalance = [u \in Users |-> InitBalance[u] - o1[2]]
          /\ debited = [u \in Users |-> o1[2]]
    /\ audit = <<NoAudit, NoAudit>>
    /\ req = [p \in 1..1 |-> IdleReq]
    /\ sweep = [s \in 1..1 |-> IdleSweep]
    /\ lockTx = [i \in 1..(MaxTx + 1) |-> 0]
    /\ lockUser = [u \in Users |-> 0]
    /\ resp = 0
    /\ inventory = [quota |-> [t \in DOMAIN TicketTypes |-> TicketTypes[t].quota],
                    seatsAvailable |-> EventSeats,
                    tickets |-> {}]
    /\ ledger = InitLedger
    /\ reviews = <<>>
    /\ organizerProfile = InitProfile

NextQuiet ==
    \/ Tick
    \/ \E s \in Sweepers : SweepStart(s)
    \/ \E s \in Sweepers : SweepSecondQuery(s)
    \/ \E s \in Sweepers : SweepDone(s)
    \/ \E s \in Sweepers, i \in 1..2 : SweepUpdateStatus(s, i)
    \/ \E s \in Sweepers : SweepCredit(s)
    \/ \E s \in Sweepers : SweepCommit(s)
    \/ \E s \in Sweepers : SweepFail(s)

FairQuiet ==
    /\ WF_vars(Tick)
    /\ WF_vars(\E s \in Sweepers : SweepStart(s))
    /\ WF_vars(\E s \in Sweepers : SweepSecondQuery(s))
    /\ WF_vars(\E s \in Sweepers : SweepDone(s))
    /\ WF_vars(\E s \in Sweepers, i \in 1..2 : SweepUpdateStatus(s, i))
    /\ WF_vars(\E s \in Sweepers : SweepCredit(s))
    /\ WF_vars(\E s \in Sweepers : SweepCommit(s))

SpecQuiet == InitQuiet /\ [][NextQuiet]_vars /\ FairQuiet

\* The store of InitBacklog; the owner and another user upload proofs, the
\* organizers approve, the worker runs and no storage call fails.
NextProofs ==
    \/ Tick
    \/ \E p \in Reqs, a \in Actors, i \in 1..2, f \in Files : ProofRead(p, a, i, f)
    \/ \E p \in Reqs : ProofWrite(p)
    \/ \E p \in Reqs, o \in Organizers, i \in 1..2 : StatusRead(p, o, i, "DONE")
    \/ \E p \in Reqs : StatusWrite(p)
    \/ \E s \in Sweepers : SweepStart(s)
    \/ \E s \in Sweepers : SweepSecondQuery(s)
    \/ \E s \in Sweepers : SweepDone(s)
    \/ \E s \in Sweepers, i \in 1..2 : SweepUpdateStatus(s, i)
    \/ \E s \in Sweepers : SweepCredit(s)
    \/ \E s \in Sweepers : SweepCommit(s)

SpecProofs == InitBacklog /\ [][NextProofs]_vars

\* The store after one checkout of the paid ticket type with the promotion
\* that may be used once; customers check out again, two requests able to
\* run at the same time, the worker not running.
OnceRequest ==
    [IdleReq EXCEPT !.userId = 1, !.ticketTypeId = 1, !.qty = 1,
                    !.promoCode = Once.code,
                    !.promoDiscount = PromoDiscount(Once, Subtotal(1, 1))]

InitCapped ==
    /\ build \in Builds
    /\ now = 0
    /\ failures = 0
    /\ promotions = {Once}
    /\ pointsBalance = InitBalance
    /\ debited = [u \in Users |-> 0]
    /\ transactions = <<CreateData(OnceRequest)>>
    /\ audit = <<NoAudit>>
    /\ req = [p \in 1..2 |-> IdleReq]
    /\ sweep = <<>>
    /\ lockTx = [i \in 1..(MaxTx + 2) |-> 0]
    /\ lockUser = [u \in Users |-> 0]
    /\ resp = 0
    /\ inventory = [quota |-> [t \in DOMAIN TicketTypes |-> TicketTypes[t].quota],
                    seatsAvailable |-> EventSeats,
                    tickets |-> {}]
    /\ ledger = InitLedger
    /\ reviews = <<>>
    /\ organizerProfile = InitProfile

NextCapped ==
    \/ Tick
    \/ \E p \in Reqs, e \in {1, 2}, t \in {1, 2, 3}, c \in {NoPromo, Once.code, "BOGUS"} :
          CheckoutRejected(p, e, t, c)
    \/ \E p \in Reqs, u \in Users, t \in {1, 2}, q \in Quantities,
          up \in BOOLEAN, c \in {NoPromo, Once.code} :
          CheckoutReadUpTo(MaxTx + 1, p, u, t, q, up, c)
    \/ \E p \in Reqs : CheckoutDebit(p)
    \/ \E p \in Reqs : CheckoutCreateUpTo(MaxTx + 1, p)
    \/ \E p \in Reqs : CheckoutFail(p)

SpecCapped == InitCapped /\ [][NextCapped]_vars

\* =============================================================== claims
RECURSIVE PointsHeldUpTo(_, _, _)
\* Sum of pointsUsedIDR over the reservations 1..i of user u whose status is in S.
PointsHeldUpTo(i, u, S) ==
    IF i = 0 THEN 0
    ELSE (IF transactions[i].userId = u /\ transactions[i].status \in S
          THEN transactions[i].pointsUsedIDR ELSE 0) + PointsHeldUpTo(i - 1, u, S)

Created == Len(transactions') = Len(transactions) + 1
Newest == transactions'[Len(transactions')]

\* C1: once a reservation is DONE, REJECTED, CANCELED or EXPIRED, no later
\* step changes any of its fields or credits points on its account.
C1_TerminalAbsorbing ==
    [][\A id \in TxIds :
          transactions[id].status \in Terminal =>
              /\ transactions'[id] = transactions[id]
              /\ audit'[id].orgCredited = audit[id].orgCredited
              /\ audit'[id].sweepCredited = audit[id].sweepCredited]_vars

\* C2: the points credited back on account of one reservation, by organizer
\* updates and sweeps together, never exceed its pointsUsedIDR.
C2_CreditAtMostOnce ==
    \A id \in TxIds :
        audit[id].orgCredited + audit[id].sweepCredited <= transactions[id].pointsUsedIDR

\* C3: no user's points balance is ever negative.
C3_BalanceNonNegative == \A u \in Users : pointsBalance[u] >= 0

\* C4: of a sweeper transition and an organizer update on one reservation only
\* the first is applied: a reservation the sweeper has expired or canceled is
\* never DONE.
C4_ExactlyOneApplied ==
    \A id \in TxIds : ~(audit[id].sweepWrites > 0 /\ transactions[id].status = "DONE")

\* C5: with overlapping sweeps (and no organizer), the sweeper credits each
\* reservation's points at most once.
C5_SweptOnce ==
    \A id \in TxIds : audit[id].sweepCredited <= transactions[id].pointsUsedIDR

\* C6: whenever no checkout is between its debit and its create, the points
\* debited from a user equal the pointsUsedIDR recorded on that user's
\* reservations.
C6_CheckoutAtomic ==
    (\A p \in Reqs : req[p].pc # "co_create") =>
        \A u \in Users : debited[u] = PointsHeldUpTo(Len(transactions), u, TxStatus)

\* A step in which the worker's status write on reservation id takes effect.
SweptNow(id) == audit'[id].sweepWrites = audit[id].sweepWrites + 1

\* C7: customers and the worker acting, a reservation becomes EXPIRED or
\* CANCELED only in a step where the worker's write takes effect, every such
\* step also raises the owner's balance by the reservation's pointsUsedIDR
\* (when positive), and the balance rises in no other step; a failed sweep
\* transaction leaves neither half behind.
C7_SweepAtomic ==
    [][/\ \A id \in TxIds :
             /\ (/\ transactions'[id].status # transactions[id].status
                 /\ transactions'[id].status \in {"EXPIRED", "CANCELED"})
                    => SweptNow(id)
             /\ SweptNow(id) =>
                   /\ transactions'[id].status \in {"EXPIRED", "CANCELED"}
                   /\ pointsBalance'[transactions[id].userId]
                         = pointsBalance[transactions[id].userId]
                             + (IF transactions[id].pointsUsedIDR > 0
                                THEN transactions[id].pointsUsedIDR ELSE 0)
       /\ \A u \in Users :
             pointsBalance'[u] > pointsBalance[u] =>
                 \E id \in TxIds : transactions[id].userId = u /\ SweptNow(id)]_vars

\* A sweep failed and was rolled back, and a later sweep expired or canceled
\* a reservation that had used points.
C7_Witness ==
    /\ failures > 0
    /\ \E id \in TxIds : /\ transactions[id].pointsUsedIDR > 0
                         /\ transactions[id].status \in {"EXPIRED", "CANCELED"}
                         /\ audit[id].sweepWrites = 1

\* C8: a reservation that is REJECTED, with no status update still between
\* its two writes, has had its points credited back by the organizer update.
C8_RejectAtomic ==
    \A id \in TxIds :
        (/\ transactions[id].status = "REJECTED"
         /\ transactions[id].pointsUsedIDR > 0
         /\ \A p \in Reqs : ~(req[p].pc = "st_credit" /\ req[p].id = id))
            => audit[id].orgCredited >= transactions[id].pointsUsedIDR

\* C9: a reservation created with payable total 0 starts WAITING_CONFIRMATION
\* with decisionDueAt = creation time + 3 days.
C9_FreeStartsWaitingConfirmation ==
    [][(Created /\ Newest.totalPayableIDR = 0) =>
          /\ Newest.status = "WAITING_CONFIRMATION"
          /\ Newest.decisionDueAt = now + DecisionWindow]_vars

\* C10: a reservation created with payable total > 0 starts WAITING_PAYMENT
\* with expiresAt = creation time + 2 hours and decisionDueAt unset.
C10_PaidStartsWaitingPayment ==
    [][(Created /\ Newest.totalPayableIDR > 0) =>
          /\ Newest.status = "WAITING_PAYMENT"
          /\ Newest.expiresAt = now + PaymentWindow
          /\ Newest.decisionDueAt = NULL]_vars

\* A reservation with a positive payable total has just been created.
C10_Witness ==
    \E id \in TxIds : /\ transactions[id].totalPayableIDR > 0
                      /\ transactions[id].createdAt = now
                      /\ transactions[id].status = "WAITING_PAYMENT"
                      /\ transactions[id].expiresAt = now + PaymentWindow

\* C11: every persisted reservation has totalPayableIDR >= 0 and
\* totalPayableIDR = totalBeforeIDR - promoDiscountIDR - pointsUsedIDR (a
\* checkout whose payable would be negative persists nothing).
C11_PayableNonNegative ==
    \A id \in TxIds :
        /\ transactions[id].totalPayableIDR >= 0
        /\ transactions[id].totalPayableIDR
              = transactions[id].totalBeforeIDR - transactions[id].promoDiscountIDR
                  - transactions[id].pointsUsedIDR

\* C12: the promo discount of a persisted reservation never exceeds its
\* subtotal (a fixed-amount promo is capped at the subtotal).
C12_DiscountCapped ==
    \A id \in TxIds :
        transactions[id].promoDiscountIDR <= transactions[id].totalBeforeIDR

\* C13: the points a checkout debits are at most min(balance, subtotal -
\* promoDiscount) for the user's balance at the moment of the debit, and a
\* checkout that goes on without a debit (points not requested, or balance
\* not positive) has pointsUsed = 0 and leaves the balance alone.
C13_PointsWithinBalance ==
    [][\A p \in Reqs :
          /\ (req[p].pc = "co_debit" /\ req'[p].pc = "co_create") =>
                req[p].pointsUsed
                    <= Min(pointsBalance[req[p].userId],
                           Subtotal(req[p].ticketTypeId, req[p].qty)
                               - req[p].promoDiscount)
          /\ (req[p].pc = "idle" /\ req'[p].pc = "co_create") =>
                /\ req'[p].pointsUsed = 0
                /\ pointsBalance' = pointsBalance]_vars

\* C14: a proof upload that is written on a WAITING_PAYMENT reservation
\* leaves it WAITING_CONFIRMATION with paymentProofUrl, paymentProofAt = now
\* and decisionDueAt = now + 3 days; and after every step each reservation
\* in WAITING_CONFIRMATION has a decisionDueAt.
C14_ProofSetsDecisionDue ==
    [][/\ \A p \in Reqs :
             (/\ req[p].pc = "pf_write"
              /\ resp' = 200
              /\ transactions[req[p].id].status = "WAITING_PAYMENT") =>
                 /\ transactions'[req[p].id].status = "WAITING_CONFIRMATION"
                 /\ transactions'[req[p].id].paymentProofUrl = req[p].file
                 /\ transactions'[req[p].id].paymentProofAt = now
                 /\ transactions'[req[p].id].decisionDueAt = now + DecisionWindow
       /\ \A id \in DOMAIN transactions' :
             transactions'[id].status = "WAITING_CONFIRMATION" =>
                 transactions'[id].decisionDueAt # NULL]_vars

\* C15: a proof upload by the owner of a reservation that is in
\* WAITING_CONFIRMATION is never refused as an invalid state.
C15_ReuploadAccepted ==
    [][~ \E p \in Reqs, id \in TxIds, f \in Files :
            /\ transactions[id].status = "WAITING_CONFIRMATION"
            /\ ProofRead(p, transactions[id].userId, id, f)
            /\ resp' = 400]_vars

\* Issued tickets bound to reservation id.
TicketsOf(inv, id) == {k \in inv.tickets : k.transactionId = id}

\* C16: a step that takes a reservation from WAITING_CONFIRMATION to DONE
\* issues as many tickets for it as its quantity and lowers the ticket type's
\* quota and the event's seatsAvailable by that quantity.
C16_ApprovalIssuesTickets ==
    [][\A id \in TxIds :
          (/\ transactions[id].status = "WAITING_CONFIRMATION"
           /\ transactions'[id].status = "DONE") =>
              LET t == transactions[id]
              IN  /\ Cardinality(TicketsOf(inventory', id)) = t.qty
                  /\ inventory'.quota[t.ticketTypeId]
                        = inventory.quota[t.ticketTypeId] - t.qty
                  /\ inventory'.seatsAvailable[t.eventId]
                        = inventory.seatsAvailable[t.eventId] - t.qty]_vars

RECURSIVE DoneQtyUpTo(_, _)
\* Tickets held by the DONE reservations 1..i for ticket type tt.
DoneQtyUpTo(i, tt) ==
    IF i = 0 THEN 0
    ELSE (IF transactions[i].status = "DONE" /\ transactions[i].ticketTypeId = tt
          THEN transactions[i].qty ELSE 0) + DoneQtyUpTo(i - 1, tt)

\* C17: for each ticket type, the quantity held by DONE reservations never
\* exceeds the ticket type's quota.
C17_NoOversell ==
    \A tt \in DOMAIN TicketTypes :
        DoneQtyUpTo(Len(transactions), tt) <= TicketTypes[tt].quota

\* C18: a status update asked by an organizer who does not own the
\* reservation's event is answered 403 and goes no further: the reservation
\* and the balances stay as they are and no write is pending.
C18_OnlyOwningOrganizer ==
    [][\A p \in Reqs, o \in Organizers, id \in TxIds, st \in StatusInputs :
          (/\ EventOrganizer[transactions[id].eventId] # o
           /\ StatusRead(p, o, id, st)) =>
              /\ resp' = 403
              /\ req'[p].pc = "idle"
              /\ UNCHANGED <<transactions, pointsBalance>>]_vars

\* C19: a checkout answered 400 or 404 (unknown event, ticket type of another
\* event, promo code unknown for the event or outside its window) persists
\* nothing and leaves every balance alone; a checkout goes on with a promo
\* code only if a promotion of that event with that code is within its
\* window; and a reservation is only created for a known event, a ticket
\* type of that event and, when it carries a code, a promotion of that event.
C19_FailedCheckoutPersistsNothing ==
    [][/\ resp' \in {400, 404} => UNCHANGED <<transactions, pointsBalance>>
       /\ \A p \in Reqs :
             (/\ req[p].pc = "idle"
              /\ req'[p].pc \in {"co_debit", "co_create"}
              /\ req'[p].promoCode # NoPromo) =>
                 \E pr \in promotions :
                     /\ pr.eventId = TicketTypes[req'[p].ticketTypeId].eventId
                     /\ pr.code = req'[p].promoCode
                     /\ pr.startsAt <= now
                     /\ now <= pr.endsAt
       /\ Created =>
             /\ Newest.eventId \in DOMAIN EventOrganizer
             /\ Newest.ticketTypeId \in DOMAIN TicketTypes
             /\ TicketTypes[Newest.ticketTypeId].eventId = Newest.eventId
             /\ Newest.promoCode # NoPromo =>
                   \E pr \in promotions : /\ pr.eventId = Newest.eventId
                                          /\ pr.code = Newest.promoCode]_vars

\* A checkout was refused after every promotion's window had closed, with
\* nothing persisted and the balance untouched.
C19_Witness ==
    /\ resp = 400
    /\ \A pr \in promotions : now > pr.endsAt
    /\ promotions # {}
    /\ transactions = <<>>
    /\ pointsBalance = InitBalance

\* C20: no persisted reservation carries the code of a promotion of its
\* event whose minSpendIDR is above the reservation's totalBeforeIDR.
C20_MinSpendEnforced ==
    \A id \in TxIds : \A pr \in promotions :
        (/\ pr.eventId = transactions[id].eventId
         /\ pr.code = transactions[id].promoCode) =>
            transactions[id].totalBeforeIDR >= pr.minSpendIDR

RECURSIVE SweptPointsUpTo(_, _)
\* Sum of the positive pointsUsedIDR over the EXPIRED and CANCELED
\* reservations 1..i of user u.
SweptPointsUpTo(i, u) ==
    IF i = 0 THEN 0
    ELSE (IF /\ transactions[i].userId = u
             /\ transactions[i].status \in {"EXPIRED", "CANCELED"}
             /\ transactions[i].pointsUsedIDR > 0
          THEN transactions[i].pointsUsedIDR ELSE 0) + SweptPointsUpTo(i - 1, u)

\* C21: when a run of the worker that had no concurrent actor and no failure
\* ends, no reservation is left WAITING_PAYMENT with expiresAt before the
\* run's time nor WAITING_CONFIRMATION with decisionDueAt before it; the
\* EXPIRED ones had their payment deadline passed and the CANCELED ones their
\* decision deadline; and each user's balance is the initial balance, less
\* the checkout debits, plus the pointsUsedIDR (when positive) of the user's
\* EXPIRED and CANCELED reservations.
C21_SweepMovesEligible ==
    [][\A s \in Sweepers :
          (sweep[s].pc = "loop" /\ sweep'[s].pc = "idle") =>
              /\ \A id \in TxIds :
                    LET t == transactions'[id]
                    IN  /\ ~(t.status = "WAITING_PAYMENT" /\ t.expiresAt # NULL
                                /\ t.expiresAt < sweep[s].now)
                        /\ ~(t.status = "WAITING_CONFIRMATION" /\ t.decisionDueAt # NULL
                                /\ t.decisionDueAt < sweep[s].now)
                        /\ t.status = "EXPIRED" => t.expiresAt < now
                        /\ t.status = "CANCELED" =>
                              (t.decisionDueAt # NULL /\ t.decisionDueAt < now)
              /\ \A u \in Users :
                    pointsBalance'[u]
                        = InitBalance[u] - debited'[u]
                            + SweptPointsUpTo(Len(transactions), u)']_vars

\* A run ended with a reservation that had used points EXPIRED or CANCELED
\* and its points back on the balance.
C21_Witness ==
    /\ \A s \in Sweepers : sweep[s].pc = "idle"
    /\ \E id \in TxIds : /\ transactions[id].status \in {"EXPIRED", "CANCELED"}
                         /\ transactions[id].pointsUsedIDR > 0
                         /\ audit[id].sweepCredited = transactions[id].pointsUsedIDR
                         /\ pointsBalance[transactions[id].userId]
                               = InitBalance[transactions[id].userId]

\* C22: when a run of the worker ends with the clock where it was at the
\* run's start, the two queries of a run started right then return nothing;
\* and the worker writes no reservation that a run has written before.
C22_SweepIdempotent ==
    [][/\ \A s \in Sweepers :
             (sweep[s].pc = "loop" /\ sweep'[s].pc = "idle" /\ sweep[s].now = now) =>
                 (ExpiredTx(now) = {} /\ CanceledTx(now) = {})'
       /\ \A id \in TxIds : SweptNow(id) => audit[id].sweepWrites = 0]_vars

\* A run has expired or canceled a reservation and has ended; a run started
\* now finds nothing.
C22_Witness ==
    /\ \A s \in Sweepers : sweep[s].pc = "idle"
    /\ \E id \in TxIds : /\ audit[id].sweepWrites = 1
                         /\ transactions[id].status \in {"EXPIRED", "CANCELED"}
    /\ ExpiredTx(now) = {}
    /\ CanceledTx(now) = {}

\* Reservation t is one the queries of a run with time `at` select.
Eligible(t, at) ==
    \/ t.status = "WAITING_PAYMENT" /\ t.expiresAt # NULL /\ t.expiresAt < at
    \/ t.status = "WAITING_CONFIRMATION" /\ t.decisionDueAt # NULL
          /\ t.decisionDueAt < at

\* C23: when the processing of one reservation fails in a run of the worker
\* while another reservation is eligible for that run, the run goes on.
C23_SweepContinuesPastFailure ==
    [][\A s \in Sweepers :
          (/\ sweep[s].pc \in {"tx_credit", "tx_commit"}
           /\ failures' = failures + 1
           /\ \E id \in TxIds \ {sweep[s].cur} :
                  Eligible(transactions'[id], sweep[s].now)) =>
              sweep'[s].pc # "idle"]_vars

RECURSIVE LedgerSumUpTo(_, _)
\* Sum of deltaIDR over the ledger rows 1..i of user u.
LedgerSumUpTo(i, u) ==
    IF i = 0 THEN 0
    ELSE (IF ledger[i].userId = u THEN ledger[i].deltaIDR ELSE 0)
            + LedgerSumUpTo(i - 1, u)

\* C24: each user's points balance equals the sum of the deltas of the
\* user's ledger rows.
C24_BalanceMatchesLedger ==
    \A u \in Users : pointsBalance[u] = LedgerSumUpTo(Len(ledger), u)

\* C25: a reservation that an organizer's update has made CANCELED (the
\* worker never wrote it, no status update on it is still in progress) has
\* had exactly its pointsUsedIDR credited back.
C25_CancelCreditsOnce ==
    \A id \in TxIds :
        (/\ transactions[id].status = "CANCELED"
         /\ audit[id].sweepWrites = 0
         /\ \A p \in Reqs : ~(req[p].pc \in {"st_write", "st_credit"} /\ req[p].id = id))
            => audit[id].orgCredited = transactions[id].pointsUsedIDR

\* C26: whenever a reservation's status changes, it becomes DONE or REJECTED
\* only from WAITING_CONFIRMATION, becomes WAITING_CONFIRMATION only from
\* WAITING_PAYMENT, and never becomes WAITING_PAYMENT.
C26_LifecycleTable ==
    [][\A id \in TxIds :
          LET from == transactions[id].status
              to == transactions'[id].status
          IN  from # to =>
                  /\ to \in {"DONE", "REJECTED"} => from = "WAITING_CONFIRMATION"
                  /\ to = "WAITING_CONFIRMATION" => from = "WAITING_PAYMENT"
                  /\ to # "WAITING_PAYMENT"]_vars

C28_AmountsFixedAtCreation ==
    [][\A id \in TxIds :
          /\ transactions'[id].unitPriceIDR = transactions[id].unitPriceIDR
          /\ transactions'[id].qty = transactions[id].qty
          /\ transactions'[id].totalBeforeIDR = transactions[id].totalBeforeIDR
          /\ transactions'[id].promoDiscountIDR = transactions[id].promoDiscountIDR
          /\ transactions'[id].pointsUsedIDR = transactions[id].pointsUsedIDR
          /\ transactions'[id].totalPayableIDR = transactions[id].totalPayableIDR]_vars

\* A reservation paid with points went through a proof upload and was then
\* canceled by the worker, its amounts as the checkout stored them.
C28_Witness ==
    \E id \in TxIds :
        /\ transactions[id].status = "CANCELED"
        /\ transactions[id].paymentProofUrl # NULL
        /\ audit[id].sweepWrites = 1
        /\ transactions[id].pointsUsedIDR > 0
        /\ transactions[id].unitPriceIDR = TicketTypes[transactions[id].ticketTypeId].priceIDR

ValidNow(c) ==
    \E pr \in promotions : /\ pr.eventId = 1
                           /\ pr.code = c
                           /\ pr.startsAt <= now
                           /\ now <= pr.endsAt

\* C30: a checkout for event 1 with promo code c is refused for its code
\* only when no promotion of event 1 has that code with startsAt <= now <=
\* endsAt, and goes on only when one has, with that promotion's discount.
C30_PromoAcceptedIffValid ==
    [][/\ resp' = 400 =>
             \A p \in Reqs, t \in {1, 2}, c \in PromoCodes \ {NoPromo} :
                 CheckoutRejected(p, 1, t, c) => ~ValidNow(c)
       /\ \A p \in Reqs :
             (/\ req[p].pc = "idle"
              /\ req'[p].pc \in {"co_debit", "co_create"}
              /\ req'[p].promoCode # NoPromo) =>
                 /\ ValidNow(req'[p].promoCode)
                 /\ \E pr \in promotions :
                       /\ pr.eventId = 1
                       /\ pr.code = req'[p].promoCode
                       /\ req'[p].promoDiscount
                             = PromoDiscount(pr, Subtotal(req'[p].ticketTypeId,
                                                          req'[p].qty))]_vars

\* A reservation was created with the promotion that is valid at the instant
\* TickStep only, at that instant, with that promotion's discount.
C30_Witness ==
    \E id \in TxIds : /\ transactions[id].promoCode = "LATE"
                      /\ transactions[id].createdAt = Late.endsAt
                      /\ transactions[id].promoDiscountIDR = Late.value

\* C31: a step that stores a review stores it for a user who has a DONE
\* reservation for the reviewed event, and after every step no two reviews
\* have the same event and the same user.
C31_ReviewOnlyAfterDone ==
    [][/\ Len(reviews') = Len(reviews) + 1 =>
             LET r == reviews'[Len(reviews')]
             IN  ValidPurchase(r.userId, r.eventId) # {}
       /\ \A i, j \in DOMAIN reviews' :
             (/\ reviews'[i].eventId = reviews'[j].eventId
              /\ reviews'[i].userId = reviews'[j].userId) => i = j]_vars

\* Statuses in which a reservation holds the points it used.
Holding == {"WAITING_PAYMENT", "WAITING_CONFIRMATION", "DONE"}

\* C32: before and after every step, each user's balance plus the
\* pointsUsedIDR of the user's reservations in WAITING_PAYMENT,
\* WAITING_CONFIRMATION or DONE is the user's initial balance; and a balance
\* rises only in a step in which one of the user's reservations enters
\* CANCELED, REJECTED or EXPIRED.
C32_PointsConserved ==
    [][\A u \in Users :
          /\ pointsBalance[u] + PointsHeldUpTo(Len(transactions), u, Holding)
                = InitBalance[u]
          /\ (pointsBalance[u] + PointsHeldUpTo(Len(transactions), u, Holding)
                = InitBalance[u])'
          /\ pointsBalance'[u] > pointsBalance[u] =>
                \E id \in TxIds :
                    /\ transactions[id].userId = u
                    /\ transactions[id].status \notin RollbackStatuses
                    /\ transactions'[id].status \in RollbackStatuses]_vars

\* C33: every reservation has pointsUsedIDR >= 0, and the debit of a
\* checkout never leaves the user's balance higher than it was.
C33_PointsUsedNonNegative ==
    [][/\ \A id \in DOMAIN transactions' : transactions'[id].pointsUsedIDR >= 0
       /\ \A p \in Reqs :
             (req[p].pc = "co_debit" /\ req'[p].pc = "co_create") =>
                 pointsBalance'[req[p].userId] <= pointsBalance[req[p].userId]]_vars

\* C34: the worker's write sets a reservation to EXPIRED, and credits its
\* points, only if the reservation is still WAITING_PAYMENT when the write
\* takes effect (a proof upload accepted after the run selected it makes the
\* run leave it alone).
C34_SweepWriteGuarded ==
    [][\A id \in TxIds :
          (SweptNow(id) /\ transactions'[id].status = "EXPIRED") =>
              transactions[id].status = "WAITING_PAYMENT"]_vars

\* C35: a reservation becomes EXPIRED only from WAITING_PAYMENT with
\* expiresAt before the time of the step, and the worker's write makes it
\* CANCELED only from WAITING_CONFIRMATION with a decisionDueAt that is set
\* and before that time.
C35_SweepOnlyPastDeadline ==
    [][\A id \in TxIds :
          LET t == transactions[id]
          IN  /\ (t.status # "EXPIRED" /\ transactions'[id].status = "EXPIRED") =>
                    /\ t.status = "WAITING_PAYMENT"
                    /\ t.expiresAt # NULL
                    /\ t.expiresAt < now
              /\ (SweptNow(id) /\ transactions'[id].status = "CANCELED") =>
                    /\ t.status = "WAITING_CONFIRMATION"
                    /\ t.decisionDueAt # NULL
                    /\ t.decisionDueAt < now]_vars

\* C36: with the worker running again and again, the clock advancing and no
\* customer or organizer acting, every reservation is eventually DONE,
\* REJECTED, CANCELED or EXPIRED.
C36_EventuallyTerminal ==
    <>(\A id \in TxIds : transactions[id].status \in Terminal)

\* C37: a proof upload by the owner of a reservation that is WAITING_PAYMENT
\* passes the handler's checks whatever expiresAt is, and the upload's write
\* leaves the reservation WAITING_CONFIRMATION (from where an approval makes
\* it DONE).
C37_LateProofAccepted ==
    [][/\ \A p \in Reqs, id \in TxIds, f \in Files :
             (/\ transactions[id].status = "WAITING_PAYMENT"
              /\ ProofRead(p, transactions[id].userId, id, f)) =>
                 (req'[p].pc = "pf_write" /\ req'[p].id = id)
       /\ \A p \in Reqs :
             (req[p].pc = "pf_write" /\ req'[p].pc = "idle") =>
                 /\ resp' = 200
                 /\ transactions'[req[p].id].status = "WAITING_CONFIRMATION"]_vars

\* A reservation the worker never wrote is DONE, its proof uploaded after
\* its payment deadline.
C37_Witness ==
    \E id \in TxIds : /\ transactions[id].status = "DONE"
                      /\ transactions[id].paymentProofAt # NULL
                      /\ transactions[id].paymentProofAt > transactions[id].expiresAt
                      /\ audit[id].sweepWrites = 0

\* C38: a proof upload asked by a user who does not own the reservation is
\* answered 403 or 404 and goes no further: no write is pending and every
\* reservation (status, paymentProofUrl, paymentProofAt and decisionDueAt
\* included) stays as it is.
C38_OnlyOwnerUploads ==
    [][\A p \in Reqs, a \in Actors, id \in TxIds, f \in Files :
          (/\ transactions[id].userId # a
           /\ ProofRead(p, a, id, f)) =>
              /\ resp' \in {403, 404}
              /\ req'[p].pc = "idle"
              /\ transactions' = transactions]_vars

\* An upload by another user was answered 404 with a reservation of user 1
\* still WAITING_PAYMENT and without a proof.
C38_Witness ==
    /\ resp = 404
    /\ \A p \in Reqs : req[p].pc = "idle"
    /\ \E id \in TxIds : /\ transactions[id].userId = 1
                         /\ transactions[id].status = "WAITING_PAYMENT"
                         /\ transactions[id].paymentProofUrl = NULL
                         /\ transactions[id].decisionDueAt = NULL

\* C39: the write of a proof upload changes nothing but status,
\* paymentProofUrl, paymentProofAt and decisionDueAt of its reservation, and
\* a status update to DONE changes nothing but the status of its reservation;
\* both leave every balance and every other reservation as they were.
C39_ProofAndApprovalFrame ==
    [][\A p \in Reqs :
          LET id == req[p].id
          IN  /\ (req[p].pc = "pf_write" /\ req'[p].pc = "idle") =>
                    /\ pointsBalance' = pointsBalance
                    /\ transactions'
                          = [transactions EXCEPT
                                ![id] = [@ EXCEPT
                                    !.status = transactions'[id].status,
                                    !.paymentProofUrl = transactions'[id].paymentProofUrl,
                                    !.paymentProofAt = transactions'[id].paymentProofAt,
                                    !.decisionDueAt = transactions'[id].decisionDueAt]]
              /\ (req[p].pc = "st_write" /\ req[p].status = "DONE"
                     /\ req'[p].pc = "idle") =>
                    /\ pointsBalance' = pointsBalance
                    /\ transactions' = [transactions EXCEPT ![id].status = "DONE"]]_vars

\* One reservation went through proof upload and approval; the other is as
\* the checkout left it and the balance is what the checkouts left.
C39_Witness ==
    \E id, other \in TxIds :
        /\ id # other
        /\ transactions[id].status = "DONE"
        /\ transactions[id].paymentProofUrl # NULL
        /\ audit[id].orgWrites = 1
        /\ transactions[other] = CreateData(BacklogRequest(transactions[other].pointsUsedIDR))
        /\ pointsBalance[1] = InitBalance[1] - 2

\* Reservations created for the promotion's event with the promotion's code.
UsesOf(pr) ==
    {id \in TxIds : /\ transactions[id].eventId = pr.eventId
                    /\ transactions[id].promoCode = pr.code}

\* C40: for every promotion with a usage cap, the reservations created with
\* its code for its event are at most maxUses.
C40_MaxUsesRespected ==
    \A pr \in promotions :
        "maxUses" \in DOMAIN pr => Cardinality(UsesOf(pr)) <= pr.maxUses

====
